---- MODULE Spec2Model ----
(***************************************************************************)
(* Model of the coerce_pattern crate (src/src/lib.rs): the two procedural  *)
(* macros assert_pattern! and coerce_pattern!.                             *)
(*                                                                         *)
(* A macro input is a sequence of tokens.  Both macros parse it into a     *)
(* structured invocation (Expression, Target [, Expression]) and emit a    *)
(* token sequence holding a two-armed match.  The host grammars the crate  *)
(* delegates to (syn::Expr, syn::Pat::parse_multi) are modelled on a       *)
(* fragment: identifiers, integer literals, `_`, None, Some(..), pairs,    *)
(* parentheses, the empty block {}, the binary operators + and | in        *)
(* expressions and the or-pattern separator | in patterns.  Token          *)
(* sequences are flat; the enumerated inputs are balanced, as every        *)
(* proc-macro token stream is.  Struct literals, closures, ranges and      *)
(* postfix calls are outside the fragment.                                 *)
(***************************************************************************)
EXTENDS Integers, Sequences, FiniteSets, TLC

\* ------------------------------------------------------------------ tokens

Idents == {"a", "b"}
Lits == {"0", "1", "2"}

LitVal(t) == CASE t = "0" -> 0 [] t = "1" -> 1 [] t = "2" -> 2

\* Parse results: <<"ok", tree, next position>> or <<"err", message, position>>.
Ok(tree, pos) == <<"ok", tree, pos>>
Err(msg, pos) == <<"err", msg, pos>>
IsOk(r) == r[1] = "ok"

At(toks, pos) == IF pos <= Len(toks) THEN toks[pos] ELSE "<eof>"

\* A failed result passes through; a good one must be followed by tok.
Expect(r, toks, tok) ==
    IF ~IsOk(r) THEN r
    ELSE IF At(toks, r[3]) # tok THEN Err("unexpected token", r[3])
    ELSE Ok(r[2], r[3] + 1)

\* ------------------------------------------------- host expression grammar
\* syn::Expr::parse on the modelled fragment:
\*   expr  ::= sum ("|" sum)*          sum ::= atom ("+" atom)*
\*   atom  ::= ident | lit | "_" | "None" | "Some" "(" expr ")"
\*           | "(" expr ")" | "(" expr "," expr ")" | "{" "}"
\* Trees: <<"ident", t>>, <<"lit", t>>, <<"infer">>, <<"call", "Some", e>>,
\*        <<"paren", e>>, <<"tuple", e1, e2>>, <<"bin", op, l, r>>, <<"block">>.

RECURSIVE ParseExprFrom(_, _)
RECURSIVE ParseSumTail(_, _)
RECURSIVE ParseOrTail(_, _)

CallOf(arg) == IF ~IsOk(arg) THEN arg ELSE Ok(<<"call", "Some", arg[2]>>, arg[3])

TupleOf(first, second) ==
    IF ~IsOk(second) THEN second ELSE Ok(<<"tuple", first, second[2]>>, second[3])

BinOf(op, left, right) ==
    IF ~IsOk(right) THEN right ELSE Ok(<<"bin", op, left, right[2]>>, right[3])

\* After "(" and a first expression: ")" closes a parenthesised expression,
\* "," continues a pair.
ExprParenOrTuple(toks, first) ==
    IF ~IsOk(first) THEN first
    ELSE IF At(toks, first[3]) = ")" THEN Ok(<<"paren", first[2]>>, first[3] + 1)
    ELSE IF At(toks, first[3]) # "," THEN Err("unexpected token", first[3])
    ELSE TupleOf(first[2], Expect(ParseExprFrom(toks, first[3] + 1), toks, ")"))

ParseAtom(toks, pos) ==
    IF At(toks, pos) \in Idents \cup {"None"} THEN Ok(<<"ident", At(toks, pos)>>, pos + 1)
    ELSE IF At(toks, pos) \in Lits THEN Ok(<<"lit", At(toks, pos)>>, pos + 1)
    ELSE IF At(toks, pos) = "_" THEN Ok(<<"infer">>, pos + 1)
    ELSE IF At(toks, pos) = "Some" /\ At(toks, pos + 1) = "(" THEN
        CallOf(Expect(ParseExprFrom(toks, pos + 2), toks, ")"))
    ELSE IF At(toks, pos) = "Some" THEN Ok(<<"ident", "Some">>, pos + 1)
    ELSE IF At(toks, pos) = "{" /\ At(toks, pos + 1) = "}" THEN Ok(<<"block">>, pos + 2)
    ELSE IF At(toks, pos) = "(" THEN ExprParenOrTuple(toks, ParseExprFrom(toks, pos + 1))
    ELSE Err("expected an expression", pos)

\* left is the result so far; each "+" takes one more atom.
ParseSumTail(toks, left) ==
    IF ~IsOk(left) \/ At(toks, left[3]) # "+" THEN left
    ELSE ParseSumTail(toks, BinOf("+", left[2], ParseAtom(toks, left[3] + 1)))

ParseSum(toks, pos) == ParseSumTail(toks, ParseAtom(toks, pos))

ParseOrTail(toks, left) ==
    IF ~IsOk(left) \/ At(toks, left[3]) # "|" THEN left
    ELSE ParseOrTail(toks, BinOf("|", left[2], ParseSum(toks, left[3] + 1)))

ParseExprFrom(toks, pos) == ParseOrTail(toks, ParseSum(toks, pos))

RECURSIVE ExprTokens(_)
\* syn::Expr's ToTokens: the tokens the tree was parsed from.
ExprTokens(e) ==
    CASE e[1] = "ident" -> <<e[2]>>
      [] e[1] = "lit" -> <<e[2]>>
      [] e[1] = "infer" -> <<"_">>
      [] e[1] = "call" -> <<e[2], "(">> \o ExprTokens(e[3]) \o <<")">>
      [] e[1] = "paren" -> <<"(">> \o ExprTokens(e[2]) \o <<")">>
      [] e[1] = "tuple" ->
            <<"(">> \o ExprTokens(e[2]) \o <<",">> \o ExprTokens(e[3]) \o <<")">>
      [] e[1] = "bin" -> ExprTokens(e[3]) \o <<e[2]>> \o ExprTokens(e[4])
      [] e[1] = "block" -> <<"{", "}">>

\* ---------------------------------------------------- host pattern grammar
\* syn::Pat::parse_multi on the modelled fragment:
\*   multi  ::= single ("|" single)*
\*   single ::= "_" | ident | lit | "None" | "Some" "(" multi ")"
\*            | "(" multi ")" | "(" multi "," multi ")"
\* Trees: <<"wild">>, <<"ident", t>>, <<"lit", t>>, <<"tstruct", "Some", p>>,
\*        <<"paren", p>>, <<"tuple", p1, p2>>, <<"or", l, r>>.

RECURSIVE ParseMultiFrom(_, _)
RECURSIVE ParseMultiTail(_, _)

TupleStructOf(arg) ==
    IF ~IsOk(arg) THEN arg ELSE Ok(<<"tstruct", "Some", arg[2]>>, arg[3])

OrOf(left, right) ==
    IF ~IsOk(right) THEN right ELSE Ok(<<"or", left, right[2]>>, right[3])

PatParenOrTuple(toks, first) ==
    IF ~IsOk(first) THEN first
    ELSE IF At(toks, first[3]) = ")" THEN Ok(<<"paren", first[2]>>, first[3] + 1)
    ELSE IF At(toks, first[3]) # "," THEN Err("unexpected token", first[3])
    ELSE TupleOf(first[2], Expect(ParseMultiFrom(toks, first[3] + 1), toks, ")"))

ParseSingle(toks, pos) ==
    IF At(toks, pos) = "_" THEN Ok(<<"wild">>, pos + 1)
    ELSE IF At(toks, pos) \in Lits THEN Ok(<<"lit", At(toks, pos)>>, pos + 1)
    ELSE IF At(toks, pos) \in Idents \cup {"None"} THEN Ok(<<"ident", At(toks, pos)>>, pos + 1)
    ELSE IF At(toks, pos) = "Some" /\ At(toks, pos + 1) = "(" THEN
        TupleStructOf(Expect(ParseMultiFrom(toks, pos + 2), toks, ")"))
    ELSE IF At(toks, pos) = "Some" THEN Ok(<<"ident", "Some">>, pos + 1)
    ELSE IF At(toks, pos) = "(" THEN PatParenOrTuple(toks, ParseMultiFrom(toks, pos + 1))
    ELSE Err("expected a pattern", pos)

\* left is the result so far; each "|" takes one more alternative.
ParseMultiTail(toks, left) ==
    IF ~IsOk(left) \/ At(toks, left[3]) # "|" THEN left
    ELSE ParseMultiTail(toks, OrOf(left[2], ParseSingle(toks, left[3] + 1)))

ParseMultiFrom(toks, pos) == ParseMultiTail(toks, ParseSingle(toks, pos))

RECURSIVE PatTokens(_)
\* syn::Pat's ToTokens: the tokens the tree was parsed from.
PatTokens(p) ==
    CASE p[1] = "wild" -> <<"_">>
      [] p[1] = "ident" -> <<p[2]>>
      [] p[1] = "lit" -> <<p[2]>>
      [] p[1] = "tstruct" -> <<p[2], "(">> \o PatTokens(p[3]) \o <<")">>
      [] p[1] = "paren" -> <<"(">> \o PatTokens(p[2]) \o <<")">>
      [] p[1] = "tuple" ->
            <<"(">> \o PatTokens(p[2]) \o <<",">> \o PatTokens(p[3]) \o <<")">>
      [] p[1] = "or" -> PatTokens(p[2]) \o <<"|">> \o PatTokens(p[3])

\* ------------------------------------------------------ structured inputs

\* impl Parse for Expression: syn::Expr::parse, wrapped.
Expression_parse(toks, pos) == ParseExprFrom(toks, pos)

\* Mutant of Expression_to_tokens: the expression re-emitted in parentheses.
Expression_to_tokens_parenthesised(e) == <<"(">> \o ExprTokens(e) \o <<")">>

\* impl ToTokens for Expression: the wrapped syn::Expr's tokens.
Expression_to_tokens(e) == ExprTokens(e)

\* Mutant of Target_parse: a single pattern, as syn::Pat::parse_single reads it.
Target_parse_single(toks, pos) == ParseSingle(toks, pos)

\* impl Parse for Target: syn::Pat::parse_multi, wrapped.
Target_parse(toks, pos) == ParseMultiFrom(toks, pos)

\* impl ToTokens for Target: the wrapped syn::Pat's tokens.
Target_to_tokens(t) == PatTokens(t)

\* The steps of a parse function.  Each takes the result so far, r, whose
\* tree is the list of the fields parsed, and is one `input.parse()?` line:
\* an earlier error is returned unchanged.
Push(r, item) ==
    IF ~IsOk(item) THEN item ELSE Ok(Append(r[2], item[2]), item[3])

\* let <field> = input.parse()?  for a field of type Expression
ThenExpression(r, toks) ==
    IF ~IsOk(r) THEN r ELSE Push(r, Expression_parse(toks, r[3]))

\* let target = input.parse()?
ThenTarget(r, toks) ==
    IF ~IsOk(r) THEN r ELSE Push(r, Target_parse(toks, r[3]))

\* input.parse::<Token![,]>()?
ThenComma(r, toks) ==
    IF ~IsOk(r) THEN r
    ELSE IF At(toks, r[3]) # "," THEN Err("expected comma", r[3])
    ELSE Ok(r[2], r[3] + 1)

\* Ok(Self { expression, target })
AssertOk(r) ==
    IF ~IsOk(r) THEN r
    ELSE Ok([expression |-> r[2][1], target |-> r[2][2]], r[3])

\* Ok(Self { expression, target, result })
CoerceOk(r) ==
    IF ~IsOk(r) THEN r
    ELSE Ok([expression |-> r[2][1], target |-> r[2][2], result |-> r[2][3]], r[3])

\* impl Parse for AssertPatternInput
AssertPatternInput_parse(toks) ==
    AssertOk(ThenTarget(ThenComma(ThenExpression(Ok(<<>>, 1), toks), toks), toks))

\* Mutant of CoercePatternInput_parse: the result part is optional, an input
\* that stops after the target standing for an empty result.
CoercePatternInput_parse_optional_result(toks) ==
    IF IsOk(AssertPatternInput_parse(toks))
          /\ AssertPatternInput_parse(toks)[3] > Len(toks)
    THEN Ok([expression |-> AssertPatternInput_parse(toks)[2].expression,
             target |-> AssertPatternInput_parse(toks)[2].target,
             result |-> <<"block">>], AssertPatternInput_parse(toks)[3])
    ELSE CoerceOk(ThenExpression(ThenComma(ThenTarget(ThenComma(
            ThenExpression(Ok(<<>>, 1), toks), toks), toks), toks), toks))

\* impl Parse for CoercePatternInput
CoercePatternInput_parse(toks) ==
    CoerceOk(ThenExpression(ThenComma(ThenTarget(ThenComma(
        ThenExpression(Ok(<<>>, 1), toks), toks), toks), toks), toks))

\* Mutant of ParseMacroInput: tokens left over after T's parser are ignored.
ParseMacroInput_ignoring_rest(r, toks) == r

\* parse_macro_input!(input as T): syn::parse runs T's parser and then
\* requires the whole stream to be consumed.
ParseMacroInput(r, toks) ==
    IF ~IsOk(r) THEN r
    ELSE IF r[3] <= Len(toks) THEN Err("unexpected token", r[3])
    ELSE r

\* parse_macro_input!'s Err arm returns err.to_compile_error().
CompileError(msg) == <<"compile_error", "!", "{", msg, "}">>

\* Mutant of CoerceMessage: the assert form's text pasted into the coerce form.
PastedMessage == "expression didn't match target pattern in assert_pattern"

AssertMessage == "expression didn't match target pattern in assert_pattern"
CoerceMessage == "expression didn't match target pattern in coerce_pattern"

\* Mutant of AssertPatternInput_to_tokens: the wildcard arm comes first.
AssertPatternInput_to_tokens_wildcard_first(i) ==
    <<"match">> \o Expression_to_tokens(i.expression) \o <<"{">>
        \o <<"_", "=>", "panic", "!", "(", AssertMessage, ")">>
        \o Target_to_tokens(i.target) \o <<"=>", "{", "}">>
        \o <<"}">>

\* impl ToTokens for AssertPatternInput: the tokens appended to `tokens`.
AssertPatternInput_to_tokens(i) ==
    <<"match">> \o Expression_to_tokens(i.expression) \o <<"{">>
        \o Target_to_tokens(i.target) \o <<"=>", "{", "}">>
        \o <<"_", "=>", "panic", "!", "(", AssertMessage, ")">>
        \o <<"}">>

\* Mutant of CoercePatternInput_to_tokens: the arm's body is the subject
\* expression instead of the result.
CoercePatternInput_to_tokens_wrong_body(i) ==
    <<"match">> \o Expression_to_tokens(i.expression) \o <<"{">>
        \o Target_to_tokens(i.target) \o <<"=>", "{">>
        \o Expression_to_tokens(i.expression) \o <<"}">>
        \o <<"_", "=>", "panic", "!", "(", CoerceMessage, ")">>
        \o <<"}">>

\* Mutant of CoercePatternInput_to_tokens: no wildcard arm.
CoercePatternInput_to_tokens_one_arm(i) ==
    <<"match">> \o Expression_to_tokens(i.expression) \o <<"{">>
        \o Target_to_tokens(i.target) \o <<"=>", "{">>
        \o Expression_to_tokens(i.result) \o <<"}">>
        \o <<"}">>

\* impl ToTokens for CoercePatternInput: the tokens appended to `tokens`.
CoercePatternInput_to_tokens(i) ==
    <<"match">> \o Expression_to_tokens(i.expression) \o <<"{">>
        \o Target_to_tokens(i.target) \o <<"=>", "{">>
        \o Expression_to_tokens(i.result) \o <<"}">>
        \o <<"_", "=>", "panic", "!", "(", CoerceMessage, ")">>
        \o <<"}">>

\* ------------------------------------------- the generated code, executed
\* What the host does with the emitted tokens: it parses them as a match
\* expression and runs it.  Values: <<"int", n>>, <<"none">>, <<"some", v>>,
\* <<"pair", v1, v2>>, <<"unit">>; <<"invalid">> stands for code the host
\* rejects (unresolved name, `_` used as a value, mistyped operand).

Invalid == <<"invalid">>
Unbound == <<"unbound">>
Unit == <<"unit">>

RECURSIVE BitOr(_, _)
BitOr(m, n) ==
    IF m = 0 THEN n
    ELSE IF n = 0 THEN m
    ELSE (IF m % 2 = 1 \/ n % 2 = 1 THEN 1 ELSE 0) + 2 * BitOr(m \div 2, n \div 2)

SomeOf(arg) == IF arg = Invalid THEN Invalid ELSE <<"some", arg>>

PairOf(l, r) == IF l = Invalid \/ r = Invalid THEN Invalid ELSE <<"pair", l, r>>

Arith(op, l, r) ==
    IF l[1] # "int" \/ r[1] # "int" THEN Invalid
    ELSE IF op = "+" THEN <<"int", l[2] + r[2]>>
    ELSE <<"int", BitOr(l[2], r[2])>>

RECURSIVE Eval(_, _)
\* The value of expression e in scope env.
Eval(e, env) ==
    CASE e[1] = "lit" -> <<"int", LitVal(e[2])>>
      [] e[1] = "ident" ->
            IF e[2] = "None" THEN <<"none">>
            ELSE IF e[2] \in Idents /\ env[e[2]] # Unbound THEN env[e[2]]
            ELSE Invalid
      [] e[1] = "infer" -> Invalid
      [] e[1] = "block" -> Unit
      [] e[1] = "paren" -> Eval(e[2], env)
      [] e[1] = "call" -> SomeOf(Eval(e[3], env))
      [] e[1] = "tuple" -> PairOf(Eval(e[2], env), Eval(e[3], env))
      [] e[1] = "bin" -> Arith(e[2], Eval(e[3], env), Eval(e[4], env))

RECURSIVE Matches(_, _)
\* Whether value v matches pattern p.
Matches(p, v) ==
    CASE p[1] = "wild" -> TRUE
      [] p[1] = "ident" ->
            IF p[2] \in Idents THEN TRUE
            ELSE IF p[2] = "None" THEN v = <<"none">>
            ELSE FALSE
      [] p[1] = "lit" -> v = <<"int", LitVal(p[2])>>
      [] p[1] = "tstruct" -> v[1] = "some" /\ Matches(p[3], v[2])
      [] p[1] = "paren" -> Matches(p[2], v)
      [] p[1] = "tuple" -> v[1] = "pair" /\ Matches(p[2], v[2]) /\ Matches(p[3], v[3])
      [] p[1] = "or" -> Matches(p[2], v) \/ Matches(p[3], v)

RECURSIVE Bind(_, _, _)
\* The scope of an arm whose pattern p matched v: env with p's bindings
\* added, shadowing outer names.
Bind(p, v, env) ==
    CASE p[1] = "ident" -> IF p[2] \in Idents THEN [env EXCEPT ![p[2]] = v] ELSE env
      [] p[1] = "tstruct" -> Bind(p[3], v[2], env)
      [] p[1] = "paren" -> Bind(p[2], v, env)
      [] p[1] = "tuple" -> Bind(p[3], v[3], Bind(p[2], v[2], env))
      [] p[1] = "or" ->
            IF Matches(p[2], v) THEN Bind(p[2], v, env) ELSE Bind(p[3], v, env)
      [] OTHER -> env

\* An arm's body: a block (empty, or holding one expression) or panic!(msg).
BlockOf(e) == IF ~IsOk(e) THEN e ELSE Ok(<<"block", <<e[2]>>>>, e[3])

HostBody(toks, pos) ==
    IF At(toks, pos) = "{" /\ At(toks, pos + 1) = "}" THEN Ok(<<"block", <<>>>>, pos + 2)
    ELSE IF At(toks, pos) = "{" THEN
        BlockOf(Expect(ParseExprFrom(toks, pos + 1), toks, "}"))
    ELSE IF /\ At(toks, pos) = "panic" /\ At(toks, pos + 1) = "!"
            /\ At(toks, pos + 2) = "(" /\ At(toks, pos + 4) = ")"
        THEN Ok(<<"panic", At(toks, pos + 3)>>, pos + 5)
    ELSE Err("expected an arm body", pos)

ArmOf(pat, body) ==
    IF ~IsOk(body) THEN body ELSE Ok(<<pat, body[2]>>, body[3])

\* One arm: pattern => body.
HostArm(toks, pat) ==
    IF ~IsOk(pat) THEN pat
    ELSE IF At(toks, pat[3]) # "=>" THEN Err("expected =>", pat[3])
    ELSE ArmOf(pat[2], HostBody(toks, pat[3] + 1))

RECURSIVE HostArms(_, _)
\* The arms of a match body, up to its closing brace; r holds those read.
HostArms(toks, r) ==
    IF ~IsOk(r) THEN r
    ELSE IF At(toks, r[3]) = "}" THEN Ok(r[2], r[3] + 1)
    ELSE HostArms(toks, Push(r, HostArm(toks, ParseMultiFrom(toks, r[3]))))

MatchOf(scrutinee, arms, toks) ==
    IF ~IsOk(arms) THEN arms
    ELSE IF arms[3] <= Len(toks) THEN Err("unexpected token", arms[3])
    ELSE Ok([scrutinee |-> scrutinee, arms |-> arms[2]], arms[3])

HostMatchBody(toks, scrutinee) ==
    IF ~IsOk(scrutinee) THEN scrutinee
    ELSE IF At(toks, scrutinee[3]) # "{" THEN Err("expected {", scrutinee[3])
    ELSE MatchOf(scrutinee[2], HostArms(toks, Ok(<<>>, scrutinee[3] + 1)), toks)

\* The emitted tokens read as `match <scrutinee> { <arms> }`.
HostMatch(toks) ==
    IF At(toks, 1) # "match" THEN Err("expected match", 1)
    ELSE HostMatchBody(toks, ParseExprFrom(toks, 2))

\* The index of the first arm whose pattern matches v, 0 when none does.
FirstArm(arms, v) ==
    IF \A k \in 1..Len(arms) : ~Matches(arms[k][1], v) THEN 0
    ELSE CHOOSE k \in 1..Len(arms) :
            /\ Matches(arms[k][1], v)
            /\ \A j \in 1..(k - 1) : ~Matches(arms[j][1], v)

Completed(r) == IF r = Invalid THEN Invalid ELSE <<"completed", r>>

\* The arm <<pat, body>> runs for subject v.
RunArm(pat, body, v, env) ==
    IF body[1] = "panic" THEN <<"aborted", body[2]>>
    ELSE IF body[2] = <<>> THEN <<"completed", Unit>>
    ELSE Completed(Eval(body[2][1], Bind(pat, v, env)))

RunArms(arms, v, k, env) ==
    IF v = Invalid \/ k = 0 THEN Invalid
    ELSE RunArm(arms[k][1], arms[k][2], v, env)

RunSubject(m, v, env) == RunArms(m.arms, v, FirstArm(m.arms, v), env)

RunParsed(m, env) ==
    IF ~IsOk(m) THEN Invalid ELSE RunSubject(m[2], Eval(m[2].scrutinee, env), env)

\* Running the emitted tokens in scope env:
\* <<"completed", value>>, <<"aborted", message>> or Invalid.
RunMatch(toks, env) == RunParsed(HostMatch(toks), env)

\* ------------------------------------------------------------ the inputs
\* Macro inputs are assembled from fragments: a first fragment, an optional
\* comma, a second fragment, an optional comma and third fragment, and
\* optional trailing tokens.  Fragments that are no expression or no
\* pattern, and missing commas, give the malformed inputs.

MaxInt == 2

GoodSubjects ==
    { <<"a">>, <<"None">>, <<"Some", "(", "1", ")">>,
      <<"Some", "(", "(", "1", ",", "a", ")", ")">>, <<"1", "|", "2">> }

BadSubjects == { <<>>, <<"+">>, <<"a", "+">> }

OrTargets == { <<"Some", "(", "1", ")", "|", "None">>, <<"1", "|", "2">> }

GoodTargets ==
    { <<"_">>, <<"b">>, <<"1">>, <<"Some", "(", "b", ")">>, <<"Some", "(", "a", ")">>,
      <<"Some", "(", "(", "1", ",", "_", ")", ")">>,
      <<"Some", "(", "(", "2", ",", "_", ")", ")">>,
      <<"(", "1", ",", "b", ")">> } \cup OrTargets

BadTargets == { <<>>, <<"+">>, <<"b", "|">>, <<"Some", "(", "+", ")">> }

GoodResults == { <<"b">>, <<"b", "+", "2">>, <<"a">>, <<"{", "}">>, <<"1">> }

BadResults == { <<>>, <<"+">>, <<"b", "+">> }

SubjectFragments == GoodSubjects \cup BadSubjects
TargetFragments == GoodTargets \cup BadTargets
ResultFragments == GoodResults \cup BadResults

Tails == {<<>>} \cup {<<",">> \o r : r \in ResultFragments}

Trailing == { <<>>, <<",">>, <<"a">> }

Inputs ==
    { e \o d \o t \o r \o x :
        e \in SubjectFragments, d \in {<<>>, <<",">>}, t \in TargetFragments,
        r \in Tails, x \in Trailing }

\* The values the outer name `a` may hold when the emitted code runs.
Ints == {<<"int", n>> : n \in 0..MaxInt}
Pairs == {<<"pair", l, r>> : l \in Ints, r \in Ints}
Options(S) == {<<"none">>} \cup {<<"some", v>> : v \in S}
Values == Ints \cup Pairs \cup Options(Ints \cup Pairs)

\* The scope at the call site: `a` holds v, `b` is not declared.
OuterScope(v) == [i \in Idents |-> IF i = "a" THEN v ELSE Unbound]

\* ---------------------------------------------------------- state machine

VARIABLES
    macro,       \* the macro being expanded: "assert_pattern" or "coerce_pattern"
    input,       \* its input tokens
    phase,       \* "Parsing", "Generating", "Generated", "ParseError", "Returned"
    invocation,  \* the parsed AssertPatternInput / CoercePatternInput
    output,      \* the token stream handed back to the compiler
    scope,       \* the scope the emitted code ran in
    outcome      \* what running the emitted code did

vars == <<macro, input, phase, invocation, output, scope, outcome>>

Macros == {"assert_pattern", "coerce_pattern"}
NoInvocation == [none |-> TRUE]
NoScope == [i \in Idents |-> Unbound]
NotRun == <<"notrun">>

Init ==
    /\ macro \in Macros
    /\ input \in Inputs
    /\ phase = "Parsing"
    /\ invocation = NoInvocation
    /\ output = <<>>
    /\ scope = NoScope
    /\ outcome = NotRun

\* Mutant of ParseStep: on an error the tokens of a match are already in the
\* output when the compile error is added.
ParseStep_partial_output(r) ==
    /\ phase = "Parsing"
    /\ IF IsOk(r)
          THEN /\ invocation' = r[2]
               /\ phase' = "Generating"
               /\ output' = output
          ELSE /\ invocation' = invocation
               /\ phase' = "ParseError"
               /\ output' = <<"match">> \o CompileError(r[2])
    /\ UNCHANGED <<macro, input, scope, outcome>>

\* let i = parse_macro_input!(input as T), for either T.
ParseStep(r) ==
    /\ phase = "Parsing"
    /\ IF IsOk(r)
          THEN /\ invocation' = r[2]
               /\ phase' = "Generating"
               /\ output' = output
          ELSE /\ invocation' = invocation
               /\ phase' = "ParseError"
               /\ output' = CompileError(r[2])
    /\ UNCHANGED <<macro, input, scope, outcome>>

\* assert_pattern: let i = parse_macro_input!(input as AssertPatternInput)
ParseAssert ==
    /\ macro = "assert_pattern"
    /\ ParseStep(ParseMacroInput(AssertPatternInput_parse(input), input))

\* coerce_pattern: let i = parse_macro_input!(input as CoercePatternInput)
ParseCoerce ==
    /\ macro = "coerce_pattern"
    /\ ParseStep(ParseMacroInput(CoercePatternInput_parse(input), input))

\* assert_pattern: quote! { #i } extends a fresh stream with i's tokens.
GenerateAssert ==
    /\ phase = "Generating"
    /\ macro = "assert_pattern"
    /\ output' = output \o AssertPatternInput_to_tokens(invocation)
    /\ phase' = "Generated"
    /\ UNCHANGED <<macro, input, invocation, scope, outcome>>

\* coerce_pattern: quote! { #i } extends a fresh stream with i's tokens.
GenerateCoerce ==
    /\ phase = "Generating"
    /\ macro = "coerce_pattern"
    /\ output' = output \o CoercePatternInput_to_tokens(invocation)
    /\ phase' = "Generated"
    /\ UNCHANGED <<macro, input, invocation, scope, outcome>>

\* The host compiles the emitted tokens at the call site and runs them.
Run ==
    /\ phase = "Generated"
    /\ outcome = NotRun
    /\ \E v \in Values :
          /\ scope' = OuterScope(v)
          /\ outcome' = RunMatch(output, OuterScope(v))
    /\ UNCHANGED <<macro, input, phase, invocation, output>>

\* The macro function returns; its locals are dropped.
Return ==
    /\ phase \in {"Generated", "ParseError"}
    /\ phase' = "Returned"
    /\ macro' = "assert_pattern"
    /\ input' = <<>>
    /\ invocation' = NoInvocation
    /\ output' = <<>>
    /\ scope' = NoScope
    /\ outcome' = NotRun

\* The compiler expands the next call site.
Invoke ==
    /\ phase = "Returned"
    /\ macro' \in Macros
    /\ input' \in Inputs
    /\ phase' = "Parsing"
    /\ UNCHANGED <<invocation, output, scope, outcome>>

Next ==
    \/ ParseAssert
    \/ ParseCoerce
    \/ GenerateAssert
    \/ GenerateCoerce
    \/ Run
    \/ Return
    \/ Invoke

Spec == Init /\ [][Next]_vars

\* ----------------------------------------------------------------- claims

Range(s) == {s[i] : i \in 1..Len(s)}
Parsed == phase \in {"Generating", "Generated"}
Ran == outcome # NotRun

\* The value of the subject expression, as parsed, in the scope of the run.
Subject == Eval(invocation.expression, scope)

\* The input was refused: a parse error, and no match construct in the output.
Rejected ==
    /\ phase = "ParseError"
    /\ "match" \notin Range(output)
    /\ ~IsOk(HostMatch(output))

SomePairSubject == <<"Some", "(", "(", "1", ",", "a", ")", ")">>
SomePairOne == <<"Some", "(", "(", "1", ",", "_", ")", ")">>
SomePairTwo == <<"Some", "(", "(", "2", ",", "_", ")", ")">>

\* C1: the code emitted by assert_pattern! completes (with the unit value)
\* exactly when the subject's value matches the target, and otherwise aborts
\* with the assert form's message; Some((1, a)) against Some((1, _)) never
\* aborts, against Some((2, _)) always aborts.
C1_AssertCompletesIffMatch ==
    (macro = "assert_pattern" /\ Ran /\ Subject # Invalid) =>
        /\ Matches(invocation.target, Subject) => outcome = <<"completed", Unit>>
        /\ ~Matches(invocation.target, Subject) =>
              outcome = <<"aborted",
                          "expression didn't match target pattern in assert_pattern">>
        /\ input = SomePairSubject \o <<",">> \o SomePairOne => outcome[1] = "completed"
        /\ input = SomePairSubject \o <<",">> \o SomePairTwo => outcome[1] = "aborted"

C1_Witness ==
    /\ macro = "assert_pattern"
    /\ input = SomePairSubject \o <<",">> \o SomePairTwo
    /\ outcome = <<"aborted", AssertMessage>>

\* C2: the code emitted by coerce_pattern! evaluates, when the subject's value
\* matches the target, to the result computed in the scope extended with the
\* target's bindings (Some(1), Some(b), b + 2 gives 3); when it does not match,
\* it aborts with the coerce form's message whatever the result expression is.
C2_CoerceEvaluatesResult ==
    (macro = "coerce_pattern" /\ Ran /\ Subject # Invalid) =>
        /\ Matches(invocation.target, Subject) =>
              outcome = Completed(Eval(invocation.result,
                                       Bind(invocation.target, Subject, scope)))
        /\ ~Matches(invocation.target, Subject) =>
              outcome = <<"aborted",
                          "expression didn't match target pattern in coerce_pattern">>
        /\ input = <<"Some", "(", "1", ")", ",", "Some", "(", "b", ")", ",", "b", "+", "2">>
              => outcome = <<"completed", <<"int", 3>>>>

C2_Witness ==
    /\ macro = "coerce_pattern"
    /\ input = <<"Some", "(", "1", ")", ",", "Some", "(", "b", ")", ",", "b", "+", "2">>
    /\ outcome = <<"completed", <<"int", 3>>>>

\* C3: an or-pattern A | B after the comma is parsed whole as the target of
\* assert_pattern!, and the emitted code completes for a value matching A,
\* completes for a value matching B and aborts for a value matching neither.
C3_OrPattern ==
    /\ (macro = "assert_pattern" /\ phase \in {"Generating", "Generated", "ParseError"}) =>
          \A e \in GoodSubjects, t \in OrTargets :
              input = e \o <<",">> \o t =>
                  /\ Parsed
                  /\ invocation.target[1] = "or"
                  /\ Target_to_tokens(invocation.target) = t
    /\ (/\ macro = "assert_pattern" /\ Ran
        /\ invocation.target[1] = "or" /\ Subject # Invalid) =>
          /\ Matches(invocation.target[2], Subject) => outcome[1] = "completed"
          /\ Matches(invocation.target[3], Subject) => outcome[1] = "completed"
          /\ (~Matches(invocation.target[2], Subject)
                /\ ~Matches(invocation.target[3], Subject)) => outcome[1] = "aborted"

C3_Witness ==
    /\ macro = "assert_pattern"
    /\ input = <<"a", ",", "Some", "(", "1", ")", "|", "None">>
    /\ scope["a"] = <<"none">>
    /\ outcome = <<"completed", Unit>>

C5_DistinctDiagnostics ==
    /\ phase = "Generated" =>
          /\ output[Len(output) - 2] \in {AssertMessage, CoerceMessage}
          /\ output[Len(output) - 2] = AssertMessage <=> macro = "assert_pattern"
          /\ output[Len(output) - 2] = CoerceMessage <=> macro = "coerce_pattern"
    /\ (Ran /\ outcome[1] = "aborted") =>
          /\ outcome[2] = AssertMessage <=> macro = "assert_pattern"
          /\ outcome[2] = CoerceMessage <=> macro = "coerce_pattern"

C5_Witness ==
    /\ macro = "coerce_pattern"
    /\ Ran
    /\ outcome = <<"aborted", CoerceMessage>>

\* C6: assert_pattern! refuses, without emitting a match, an input whose
\* first fragment is no expression, whose expression is not followed by a
\* comma, whose second fragment is no pattern, or that goes on after the
\* pattern (a trailing comma, a further `, result`); an input that is only
\* an expression is one of them.
C6_AssertRejects ==
    (macro = "assert_pattern" /\ phase \in {"Generating", "Generated", "ParseError"}) =>
        /\ ~IsOk(Expression_parse(input, 1)) => Rejected
        /\ (/\ IsOk(Expression_parse(input, 1))
            /\ At(input, Expression_parse(input, 1)[3]) # ",") => Rejected
        /\ (/\ IsOk(Expression_parse(input, 1))
            /\ At(input, Expression_parse(input, 1)[3]) = ","
            /\ ~IsOk(Target_parse(input, Expression_parse(input, 1)[3] + 1))) => Rejected
        /\ (/\ IsOk(Expression_parse(input, 1))
            /\ At(input, Expression_parse(input, 1)[3]) = ","
            /\ IsOk(Target_parse(input, Expression_parse(input, 1)[3] + 1))
            /\ Target_parse(input, Expression_parse(input, 1)[3] + 1)[3] <= Len(input))
              => Rejected
        /\ input \in { <<"a">>, <<"a", "b">>, <<"a", ",">>, <<"+", ",", "b">>,
                       <<"a", ",", "b", ",">>, <<"a", ",", "b", ",", "a">>,
                       <<"a", ",", "b", "|">> } => Rejected

C6_Witness ==
    /\ macro = "assert_pattern"
    /\ input = <<"a", ",", "b", ",", "a">>
    /\ phase = "ParseError"
    /\ output = CompileError("unexpected token")

\* C7: coerce_pattern! refuses, without emitting a match, every input whose
\* `expression , pattern` prefix assert_pattern!'s grammar refuses, every
\* well-formed two-part input, and every input whose pattern is not followed
\* by a comma and a result expression that ends the input.
C7_CoerceRejects ==
    (macro = "coerce_pattern" /\ phase \in {"Generating", "Generated", "ParseError"}) =>
        /\ ~IsOk(AssertPatternInput_parse(input)) => Rejected
        /\ IsOk(ParseMacroInput(AssertPatternInput_parse(input), input)) => Rejected
        /\ (/\ IsOk(AssertPatternInput_parse(input))
            /\ At(input, AssertPatternInput_parse(input)[3]) # ",") => Rejected
        /\ (/\ IsOk(AssertPatternInput_parse(input))
            /\ At(input, AssertPatternInput_parse(input)[3]) = ","
            /\ ~IsOk(Expression_parse(input, AssertPatternInput_parse(input)[3] + 1)))
              => Rejected
        /\ (/\ IsOk(AssertPatternInput_parse(input))
            /\ At(input, AssertPatternInput_parse(input)[3]) = ","
            /\ IsOk(Expression_parse(input, AssertPatternInput_parse(input)[3] + 1))
            /\ Expression_parse(input, AssertPatternInput_parse(input)[3] + 1)[3]
                  <= Len(input)) => Rejected
        /\ input \in { <<"a">>, <<"a", ",", "b">>, <<"a", ",", "b", ",">>,
                       <<"a", ",", "b", ",", "+">>, <<"a", ",", "b", ",", "a", ",">>,
                       <<"a", ",", "b", ",", "a", "a">> } => Rejected

C7_Witness ==
    /\ macro = "coerce_pattern"
    /\ input = <<"a", ",", "Some", "(", "b", ")">>
    /\ phase = "ParseError"
    /\ output = CompileError("expected comma")

\* C8: for every valid expression E and pattern P of the fragment, `E, P` is
\* accepted by assert_pattern! and its fields re-emit E and P; with a valid
\* result R, `E, P, R` is accepted by coerce_pattern! and its fields re-emit
\* E, P and R: fragments go to fields by position, tokens unchanged.
C8_RoundTrip ==
    /\ (macro = "assert_pattern" /\ phase \in {"Generating", "Generated", "ParseError"}) =>
          /\ \A e \in GoodSubjects, t \in GoodTargets :
                input = e \o <<",">> \o t =>
                    /\ Parsed
                    /\ Expression_to_tokens(invocation.expression) = e
                    /\ Target_to_tokens(invocation.target) = t
          /\ Parsed =>
                input = Expression_to_tokens(invocation.expression) \o <<",">>
                            \o Target_to_tokens(invocation.target)
    /\ (macro = "coerce_pattern" /\ phase \in {"Generating", "Generated", "ParseError"}) =>
          /\ \A e \in GoodSubjects, t \in GoodTargets, r \in GoodResults :
                input = e \o <<",">> \o t \o <<",">> \o r =>
                    /\ Parsed
                    /\ Expression_to_tokens(invocation.expression) = e
                    /\ Target_to_tokens(invocation.target) = t
                    /\ Expression_to_tokens(invocation.result) = r
          /\ Parsed =>
                input = Expression_to_tokens(invocation.expression) \o <<",">>
                            \o Target_to_tokens(invocation.target) \o <<",">>
                            \o Expression_to_tokens(invocation.result)

C8_Witness ==
    /\ macro = "assert_pattern"
    /\ phase = "Generating"
    /\ input = SomePairSubject \o <<",">> \o <<"Some", "(", "1", ")", "|", "None">>
    /\ invocation.expression = <<"call", "Some", <<"tuple", <<"lit", "1">>, <<"ident", "a">>>>>>
    /\ invocation.target =
          <<"or", <<"tstruct", "Some", <<"lit", "1">>>>, <<"ident", "None">>>>

\* The expansion and the run of assert_pattern!(e, t), for the state of a
\* coerce_pattern!(e, t, {}) whose input is `e, t` followed by `, {}`.
EmptyResult == <<",", "{", "}">>
HasEmptyResult ==
    /\ macro = "coerce_pattern"
    /\ phase = "Generated"
    /\ Len(input) > 3
    /\ SubSeq(input, Len(input) - 2, Len(input)) = EmptyResult
    /\ invocation.result = <<"block">>
TwoPartInput == SubSeq(input, 1, Len(input) - 3)
TwoPartOutput ==
    AssertPatternInput_to_tokens(
        ParseMacroInput(AssertPatternInput_parse(TwoPartInput), TwoPartInput)[2])
DifferingPositions(s, t) ==
    {i \in 1..Len(s) : i > Len(t) \/ s[i] # t[i]} \cup {i \in 1..Len(t) : i > Len(s)}

\* C9 as stated: the construct of coerce_pattern!(e, t, {}) differs from that
\* of assert_pattern!(e, t) in the message of the wildcard arm only.
C9_DifferOnlyInMessage ==
    HasEmptyResult =>
        DifferingPositions(output, TwoPartOutput) = {Len(output) - 2}

\* C9, amended: both complete with the unit value or both abort, on every
\* subject; the two constructs have the same subject, target and wildcard
\* arm up to its message, and differ besides in the body of the target's arm,
\* which is `{ {} }` in the coerce form and `{}` in the assert form.
C9_EquivalentUpToMessage ==
    HasEmptyResult =>
        /\ Len(output) = Len(TwoPartOutput) + 2
        /\ SubSeq(output, 1, Len(output) - 11) \o SubSeq(output, Len(output) - 8, Len(output))
              = SubSeq(TwoPartOutput, 1, Len(TwoPartOutput) - 9)
                    \o <<"}", "_", "=>", "panic", "!", "(", CoerceMessage, ")", "}">>
        /\ SubSeq(output, Len(output) - 10, Len(output) - 9) = <<"{", "}">>
        /\ TwoPartOutput[Len(TwoPartOutput) - 2] = AssertMessage
        /\ Ran =>
              \/ /\ outcome = <<"completed", Unit>>
                 /\ RunMatch(TwoPartOutput, scope) = <<"completed", Unit>>
              \/ /\ outcome = <<"aborted", CoerceMessage>>
                 /\ RunMatch(TwoPartOutput, scope) = <<"aborted", AssertMessage>>
              \/ /\ outcome = Invalid
                 /\ RunMatch(TwoPartOutput, scope) = Invalid

C9_Witness ==
    /\ HasEmptyResult
    /\ input = <<"a", ",", "Some", "(", "1", ")", "|", "None", ",", "{", "}">>
    /\ outcome = <<"aborted", CoerceMessage>>
    /\ RunMatch(TwoPartOutput, scope) = <<"aborted", AssertMessage>>

\* The output of a whole expansion, from the macro and its input alone.
ExpansionOf(m, toks) ==
    IF m = "assert_pattern"
    THEN IF IsOk(ParseMacroInput(AssertPatternInput_parse(toks), toks))
         THEN AssertPatternInput_to_tokens(
                  ParseMacroInput(AssertPatternInput_parse(toks), toks)[2])
         ELSE CompileError(ParseMacroInput(AssertPatternInput_parse(toks), toks)[2])
    ELSE IF IsOk(ParseMacroInput(CoercePatternInput_parse(toks), toks))
         THEN CoercePatternInput_to_tokens(
                  ParseMacroInput(CoercePatternInput_parse(toks), toks)[2])
         ELSE CompileError(ParseMacroInput(CoercePatternInput_parse(toks), toks)[2])

C10_Steps ==
    /\ phase' = "Parsing" =>
          (phase = "Returned" /\ output' = <<>> /\ invocation' = NoInvocation)
    /\ phase = "Parsing" => phase' \in {"Generating", "ParseError"}
    /\ phase' = "Generating" =>
          (phase = "Parsing" /\ invocation' # NoInvocation /\ output' = <<>>)
    /\ phase = "Generating" => phase' = "Generated"
    /\ phase' = "ParseError" =>
          (phase = "Parsing" /\ invocation' = NoInvocation /\ "match" \notin Range(output'))
    /\ phase = "ParseError" => phase' = "Returned"
    /\ phase = "Generated" => phase' \in {"Generated", "Returned"}
    /\ (phase = "Generated" /\ phase' = "Generated") => output' = output
    /\ phase' \in {"Generated", "ParseError"} => output' = ExpansionOf(macro', input')

====
